---- MODULE Spec2Model ----
(***************************************************************************)
(* Evaluation execution engine of prompt-lab: the LLM rate limiter, the    *)
(* column-task manager, the unified scheduler and the row-task executor.   *)
(* Every coroutine is cut at its awaits: one action is the code between    *)
(* two suspension points.                                                  *)
(***************************************************************************)
EXTENDS Integers, Sequences, FiniteSets, Bags, TLC

(***************************************************************************)
(* Bounds of the model.                                                    *)
(***************************************************************************)
\* clock readings per second (time.time() has a finite resolution)
TicksPerSecond == 2
\* last clock reading explored by the limiter specification
MaxTime == 5
\* acquire() calls explored
MaxAcquires == 4
\* concurrent callers of acquire()
MaxCallers == 2
\* max_concurrent_tasks of the configuration the model runs under
MaxConcurrentTasks == 3
\* workers alive at once that the model follows
MaxWorkers == 4
\* dataset items (one RowTask each) of the row-mode Result
NumRows == 2
\* create_task_by_pipeline calls the model follows
MaxRequests == 2
\* columns a ColumnTask can be created for
NumColumns == 2
\* largest max_retries a request asks for
MaxRetries == 1
\* retry_task calls in flight at once
MaxRetryCalls == 2
\* dataset items of the column-mode specifications that follow TaskItems
NumItems == 2
\* evaluate_output calls made with one column config
MaxEvaluations == 3
\* _scheduler_loop tasks left behind by start_scheduler that the model follows
MaxOldLoops == 2

(***************************************************************************)
(* Program constants.                                                      *)
(***************************************************************************)
\* llm_rate_limiter.py:63  current_time - second_window[0] > 1.0
SecondWindowSeconds == 1
\* llm_rate_limiter.py:67  current_time - minute_window[0] > 60.0
MinuteWindowSeconds == 60

VARIABLES
    \* ---- LLMRateLimiter ----
    now,            \* the clock reading time.time() returns
    qps,            \* LLMRateLimiter.qps
    qpm,            \* LLMRateLimiter.qpm
    second_window,  \* deque of admission timestamps (1 s window)
    minute_window,  \* deque of admission timestamps (60 s window)
    lock,           \* holder of LLMRateLimiter._lock, 0 when free
    lpc,            \* caller -> position in acquire()
    wake,           \* caller -> clock reading its asyncio.sleep ends at
    admitted,       \* history: the timestamps acquire() recorded, in order
    \* ---- persistent state of the row-mode Result ----
    columns,        \* the pipeline: column types in ascending position
    row_tasks,      \* EvalResultRowTask rows, by id
    cells,          \* EvalCell rows: <<row task, column index>> -> statuses
    result,         \* the EvalResult row
    \* ---- column mode: EvalTaskManager and EvalTaskExecutor ----
    tasks,          \* EvalTask rows, by id
    requests,       \* create_task_by_pipeline calls in flight
    exec_running,   \* EvalTaskExecutor._running_tasks
    retry_calls,    \* retry_task calls in flight (a bag of the rows they read)
    \* ---- EvalConfig ----
    max_concurrent_tasks,   \* get_max_concurrent_tasks()
    dataset_items,          \* ids of the DatasetItems a ColumnTask is created for
    \* ---- EvaluationEngine ----
    engine,         \* the config of a coalesce column: whether it has the key
                    \* "values", the list under that key in the dict the
                    \* callers hand to evaluate_output, the list the Column
                    \* row stores, and the arguments and result of the calls
    \* ---- EvalTaskScheduler ----
    running,        \* _running
    spc,            \* position of _scheduler_loop ("off" when there is none)
    slots,          \* available_slots of schedule_pending_tasks
    active,         \* _active_tasks
    workers,        \* the live asyncio tasks the scheduler spawned (a bag)
    old_loops,      \* the _scheduler_loop tasks _scheduler_task refers to no
                    \* longer and that have not returned: a bag of positions
    \* ---- the create-result endpoint ----
    creation,       \* the answer to the create_result request and the
                    \* dataset items selected by the requests so far
    \* ---- history ----
    llm_calls       \* LLM invocations of the row executor

cfgVars == <<max_concurrent_tasks, dataset_items, engine, old_loops>>
limVars == <<now, qps, qpm, second_window, minute_window, lock, lpc, wake, admitted>>
dbRowVars == <<columns, row_tasks, cells, result>>
colVars == <<tasks, requests, exec_running, retry_calls>>
schedVars == <<running, spc, slots, active, workers>>
vars == <<creation, cfgVars, limVars, dbRowVars, colVars, schedVars, llm_calls>>

Callers == 1..MaxCallers

SecondTicks == SecondWindowSeconds * TicksPerSecond
MinuteTicks == MinuteWindowSeconds * TicksPerSecond

Max(S) == CHOOSE x \in S : \A y \in S : y <= x

(***************************************************************************)
(* LLMRateLimiter                                                          *)
(***************************************************************************)
\* the while loops of _cleanup_windows: pop the head while it is older than
\* the window (strictly)
RECURSIVE DropExpired(_, _, _)
DropExpired(w, current_time, span) ==
    IF w # <<>> /\ current_time - Head(w) > span
    THEN DropExpired(Tail(w), current_time, span)
    ELSE w

cleanup_second(w, current_time) == DropExpired(w, current_time, SecondTicks)
cleanup_minute(w, current_time) == DropExpired(w, current_time, MinuteTicks)

\* _calculate_wait_time, on the cleaned windows; "raise" is the IndexError of
\* second_window[0] / minute_window[0] on an empty deque
qps_full(sw, q) == Len(sw) >= q
qpm_full(mw, q) == Len(mw) >= q

wait_raises(sw, mw, q, m) ==
    \/ qps_full(sw, q) /\ sw = <<>>
    \/ qpm_full(mw, m) /\ mw = <<>>

wait_times(sw, mw, current_time, q, m) ==
    (IF qps_full(sw, q) /\ sw # <<>> /\ SecondTicks - (current_time - Head(sw)) > 0
     THEN {SecondTicks - (current_time - Head(sw))} ELSE {})
    \cup
    (IF qpm_full(mw, m) /\ mw # <<>> /\ MinuteTicks - (current_time - Head(mw)) > 0
     THEN {MinuteTicks - (current_time - Head(mw))} ELSE {})

calculate_wait_time(sw, mw, current_time, q, m) ==
    IF wait_times(sw, mw, current_time, q, m) = {} THEN 0
    ELSE Max(wait_times(sw, mw, current_time, q, m))

\* acquire(), a caller asks for the lock
AcquireCall(c) ==
    /\ lpc[c] = "idle"
    /\ Len(admitted) + Cardinality({d \in Callers : lpc[d] # "idle"}) < MaxAcquires
    /\ lpc' = [lpc EXCEPT ![c] = "lock"]
    /\ UNCHANGED <<now, qps, qpm, second_window, minute_window, lock, wake, admitted>>
    /\ UNCHANGED <<creation, cfgVars, dbRowVars, colVars, schedVars, llm_calls>>

\* acquire(), from taking the lock to the sleep or to the return
AcquireEnter(c) ==
    /\ lpc[c] = "lock"
    /\ lock = 0
    /\ LET sw == cleanup_second(second_window, now)
           mw == cleanup_minute(minute_window, now)
       IN IF wait_raises(sw, mw, qps, qpm)
          THEN /\ second_window' = sw
               /\ minute_window' = mw
               /\ lpc' = [lpc EXCEPT ![c] = "raised"]
               /\ UNCHANGED <<lock, wake, admitted>>
          ELSE IF calculate_wait_time(sw, mw, now, qps, qpm) > 0
          THEN /\ second_window' = sw
               /\ minute_window' = mw
               /\ lock' = c
               /\ wake' = [wake EXCEPT ![c] = now + calculate_wait_time(sw, mw, now, qps, qpm)]
               /\ lpc' = [lpc EXCEPT ![c] = "sleep"]
               /\ UNCHANGED admitted
          ELSE /\ second_window' = Append(sw, now)
               /\ minute_window' = Append(mw, now)
               /\ admitted' = Append(admitted, now)
               /\ lpc' = [lpc EXCEPT ![c] = "idle"]
               /\ UNCHANGED <<lock, wake>>
    /\ UNCHANGED <<now, qps, qpm>>
    /\ UNCHANGED <<creation, cfgVars, dbRowVars, colVars, schedVars, llm_calls>>

\* acquire(), after asyncio.sleep(wait_time): clean again, record, release
AcquireWake(c) ==
    /\ lpc[c] = "sleep"
    /\ now >= wake[c]
    /\ second_window' = Append(cleanup_second(second_window, now), now)
    /\ minute_window' = Append(cleanup_minute(minute_window, now), now)
    /\ admitted' = Append(admitted, now)
    /\ lock' = 0
    /\ lpc' = [lpc EXCEPT ![c] = "idle"]
    /\ UNCHANGED <<now, qps, qpm, wake>>
    /\ UNCHANGED <<creation, cfgVars, dbRowVars, colVars, schedVars, llm_calls>>

\* the clock moves on
Tick ==
    /\ now < MaxTime
    /\ now' = now + 1
    /\ UNCHANGED <<qps, qpm, second_window, minute_window, lock, lpc, wake, admitted>>
    /\ UNCHANGED <<creation, cfgVars, dbRowVars, colVars, schedVars, llm_calls>>

LimiterInitWith(Q, M) ==
    /\ now = 0
    /\ qps \in Q
    /\ qpm \in M
    /\ second_window = <<>>
    /\ minute_window = <<>>
    /\ lock = 0
    /\ lpc = [c \in Callers |-> "idle"]
    /\ wake = [c \in Callers |-> 0]
    /\ admitted = <<>>

\* the part of the state the limiter specification leaves alone
\* no row-mode Result
NoCreation == [resp |-> "none", execution_mode |-> "none", selected |-> {}]

RowIdle ==
    /\ creation = NoCreation
    /\ engine = [has_values |-> FALSE, values |-> <<>>, stored |-> <<>>, calls |-> <<>>]
    /\ columns = <<>>
    /\ row_tasks = <<>>
    /\ cells = <<>>
    /\ result = [status |-> "new", prompt_versions |-> {}]
    /\ llm_calls = {}

Requests == 1..MaxRequests
ColumnIds == 1..NumColumns

\* no column-mode task, no request yet; the dataset has the items D
ColIdleWith(D) ==
    /\ dataset_items = D
    /\ tasks = <<>>
    /\ requests = [q \in Requests |->
                     [pc |-> "idle", column_id |-> 0, max_retries |-> 0, resp |-> "none"]]
    /\ exec_running = {}
    /\ retry_calls = EmptyBag

ColIdle == ColIdleWith(1..1)

\* EvalTaskScheduler.__init__
SchedulerInit(caps) ==
    /\ max_concurrent_tasks \in caps
    /\ running = FALSE
    /\ spc = "off"
    /\ slots = 0
    /\ active = {}
    /\ workers = EmptyBag
    /\ old_loops = EmptyBag

LimiterInit == LimiterInitWith({0, 1, 2}, {1, 2, 60}) /\ RowIdle /\ ColIdle /\ SchedulerInit({MaxConcurrentTasks})

LimiterNext ==
    \/ \E c \in Callers : AcquireCall(c)
    \/ \E c \in Callers : AcquireEnter(c)
    \/ \E c \in Callers : AcquireWake(c)
    \/ Tick

SpecLimiter == LimiterInit /\ [][LimiterNext]_vars

(***************************************************************************)
(* Row mode: the persistent rows                                           *)
(***************************************************************************)
RowIds == 1..NumRows
\* the row-mode Result of the model
Results == {1}

ColIdx == 1..Len(columns)

\* the column types _execute_column_for_row tells apart
LLMTypes == {"prompt_template", "llm_assertion"}
BooleanTypes == {"exact_match", "exact_multi_match", "contains", "regex"}
EvalTypes == {"exact_match", "contains", "regex", "type_validation", "llm_assertion"}

\* _get_prompt_versions_for_pipeline: one entry per prompt_template column
PromptVersions(cols) == {i \in 1..Len(cols) : cols[i] = "prompt_template"}

\* pipelines with and without a prompt_template column
BatchPipelines ==
    { <<"prompt_template", "exact_match">>,
      <<"llm_assertion", "exact_match">> }

\* create_row_tasks_for_result: one pending RowTask per dataset item
NewRowTask(rid) ==
    [ result_id |-> rid, status |-> "pending", row_result |-> "null",
      current_column_position |-> 0,
      started_at |-> "null",     \* "null", "recent", or "old" (before the timeout cutoff)
      updated_at |-> "recent" ]  \* "recent" or "old" (before the timeout cutoff)

\* EvalResultRowTask.is_finished
is_finished(t) == t.status \in {"completed", "failed"}

\* _update_eval_result_stats
CountResult(rts, rid, v) ==
    Cardinality({r \in DOMAIN rts : rts[r].result_id = rid /\ rts[r].row_result = v})

update_eval_result_stats(res, rts, rid) ==
    [ res EXCEPT
        !.status = IF \A r \in DOMAIN rts : rts[r].result_id = rid => is_finished(rts[r])
                   THEN "completed" ELSE "running",
        !.total_count = Cardinality({r \in DOMAIN rts : rts[r].result_id = rid}),
        !.passed_count = CountResult(rts, rid, "passed"),
        !.unpassed_count = CountResult(rts, rid, "unpassed"),
        !.failed_count = CountResult(rts, rid, "failed") ]

(***************************************************************************)
(* Workers: the asyncio tasks spawned by the scheduler                     *)
(***************************************************************************)
\* asyncio.create_task, the return of a task, and one step of a task
Spawn(ws, w) == ws (+) SetToBag({w})
Retire(ws, w) == ws (-) SetToBag({w})
Step(ws, w, v) == Spawn(Retire(ws, w), v)

RECURSIVE SpawnAll(_, _)
SpawnAll(ws, sq) == IF sq = <<>> THEN ws ELSE SpawnAll(Spawn(ws, Head(sq)), Tail(sq))

Live == BagToSet(workers)

\* one call of _execute_single_row_task: its position, the index of the
\* column at hand, the cell read for it, and execution_variables at the last
\* column's name (the only entry the verdict reads)
NewRun(pc) == [pc |-> pc, ci |-> 1, cell |-> 0, val |-> "none"]

\* _execute_task_with_cleanup(task, task_key) for a RowTaskAdapter; the
\* scheduler's own EvalRowTaskExecutor has _rate_limiting_enabled = False
RowWorker(rt) ==
    [ type |-> "row_task", id |-> rt, pc |-> "columns", ids |-> {},
      rows |-> <<rt>>, runs |-> <<NewRun("wait")>>, limiting |-> FALSE, conc |-> FALSE,
      seen |-> <<0, 0>> ]

\* execute_batch() of force_schedule_row_task_batch, on a new EvalRowTaskExecutor
BatchWorker(rid, ids) ==
    [ type |-> "row_batch", id |-> rid, pc |-> "fetch", ids |-> ids,
      rows |-> <<>>, runs |-> <<>>, limiting |-> FALSE, conc |-> FALSE,
      seen |-> <<0, 0>> ]

Key(w) == <<w.type, w.id>>

\* a set of row ids as the list a query returns
RECURSIVE SetToSeq(_)
SetToSeq(S) ==
    IF S = {} THEN <<>>
    ELSE LET x == CHOOSE y \in S : \A z \in S : y <= z
         IN <<x>> \o SetToSeq(S \ {x})

\* the probe with the answer "no LLM call" whatever the snapshot holds
has_llm_calls_never(res) == FALSE

\* _check_eval_result_has_llm_calls: the prompt_versions snapshot is non-empty
check_eval_result_has_llm_calls(res) == res.prompt_versions # {}

\* EvalRowTaskExecutor._get_pending_row_tasks(result_id, dataset_item_ids)
PendingRowsOf(rid, ids) ==
    {r \in DOMAIN row_tasks :
        /\ row_tasks[r].result_id = rid
        /\ row_tasks[r].status = "pending"
        /\ (ids # {} => r \in ids)}

\* execute_row_tasks_batch up to the status update: the pending rows and
\* _check_eval_result_has_llm_calls
BatchFetch(w) ==
    /\ w.type = "row_batch"
    /\ w.pc = "fetch"
    /\ LET rows == SetToSeq(PendingRowsOf(w.id, w.ids))
           has_llm_calls == check_eval_result_has_llm_calls(result)
       IN IF rows = <<>>
          THEN /\ workers' = Retire(workers, w)
               /\ active' = active \ {Key(w)}
          ELSE /\ workers' = Step(workers, w,
                                   [w EXCEPT !.pc = "mark",
                                             !.ids = {},
                                             !.rows = rows,
                                             !.limiting = has_llm_calls,
                                             !.conc = ~has_llm_calls])
               /\ UNCHANGED active
    /\ UNCHANGED <<creation, cfgVars, limVars, colVars, dbRowVars, running, spc, slots, llm_calls>>

\* _batch_update_task_status(ids, RUNNING), then _get_pipeline_columns:
\* without columns a ValueError ends the batch (execute_row_tasks_batch
\* returns False and execute_batch drops the key), else the first (serial)
\* or every (concurrent) _execute_single_row_task is started
BatchMark(w) ==
    /\ w.type = "row_batch"
    /\ w.pc = "mark"
    /\ LET rows == w.rows
           inBatch == {rows[k] : k \in 1..Len(rows)}
       IN /\ row_tasks' = [r \in DOMAIN row_tasks |->
                              IF r \in inBatch
                              THEN [row_tasks[r] EXCEPT !.status = "running",
                                                        !.started_at = "recent"]
                              ELSE row_tasks[r]]
          /\ IF columns = <<>>
             THEN /\ workers' = Retire(workers, w)
                  /\ active' = active \ {Key(w)}
             ELSE /\ workers' = Step(workers, w,
                                 [w EXCEPT
                                    !.pc = "run",
                                    !.runs = [k \in 1..Len(rows) |->
                                                 IF w.conc \/ k = 1
                                                 THEN NewRun("begin") ELSE NewRun("wait")]])
                  /\ UNCHANGED active
    /\ UNCHANGED <<creation, cfgVars, limVars, colVars, columns, cells, result, running, spc, slots, llm_calls>>

\* RowTaskAdapter.execute: _get_pipeline_columns, then a ValueError when
\* there is no column (_execute_task_with_cleanup drops the key), else
\* _execute_single_row_task
RowColumns(w) ==
    /\ w.type = "row_task"
    /\ w.pc = "columns"
    /\ IF columns = <<>>
       THEN /\ workers' = Retire(workers, w)
            /\ active' = active \ {Key(w)}
       ELSE /\ workers' = Step(workers, w, [w EXCEPT !.pc = "run", !.runs = <<NewRun("begin")>>])
            /\ UNCHANGED active
    /\ UNCHANGED <<creation, cfgVars, limVars, colVars, dbRowVars, running, spc, slots, llm_calls>>

(***************************************************************************)
(* _execute_single_row_task, one step per await                            *)
(***************************************************************************)
\* what one column can return: success flag, the status written to the
\* cell ("same" when the exception handler returns without writing) and
\* the value handed to the next columns
Outcome(ok, cell, val) == [ok |-> ok, cell |-> cell, val |-> val]

Outcomes(type) ==
    CASE type = "dataset_variable" -> {Outcome(TRUE, "completed", "none")}
      [] type = "prompt_template" ->
            {Outcome(TRUE, "completed", "text"), Outcome(FALSE, "failed", "none")}
      [] type = "human_input" -> {Outcome(TRUE, "completed", "text")}
      [] type = "exact_multi_match" \/ type \in EvalTypes ->
            {Outcome(TRUE, "completed", "true"), Outcome(TRUE, "completed", "false"),
             Outcome(FALSE, "same", "none")}
      [] OTHER -> {Outcome(FALSE, "failed", "none")}

\* the same for the column executor, _execute_evaluation followed by
\* _update_eval_cell: exact_match, contains and regex raise when the
\* reference or the expected column is not among the variables,
\* exact_multi_match reports success = passed, the helper types return
\* their output, and any other type raises NonRetryableError
ColumnOutcomes(type) ==
    CASE type = "prompt_template" ->
            {Outcome(TRUE, "completed", "text"), Outcome(FALSE, "failed", "none")}
      [] type = "human_input" -> {Outcome(TRUE, "completed", "text")}
      [] type \in {"exact_match", "contains", "regex", "exact", "regex_match"} ->
            {Outcome(TRUE, "completed", "true"), Outcome(TRUE, "completed", "false"),
             Outcome(FALSE, "failed", "none")}
      [] type = "exact_multi_match" ->
            {Outcome(TRUE, "completed", "true"), Outcome(FALSE, "failed", "none")}
      [] type \in {"json_extraction", "parse_value", "static_value",
                   "type_validation", "coalesce", "count"} ->
            {Outcome(TRUE, "completed", "text"), Outcome(FALSE, "failed", "none")}
      [] OTHER -> {Outcome(FALSE, "failed", "none")}

\* the row of runner k of worker w, and its column
RunRow(w, k) == w.rows[k]
RunCol(w, k) == columns[w.runs[k].ci]

AtRun(w, k, pc) ==
    /\ w.pc = "run"
    /\ k \in DOMAIN w.runs
    /\ w.runs[k].pc = pc

\* the worker list and the active set after runner k of worker w returned:
\* a tick worker ends in the finally of _execute_task_with_cleanup, a serial
\* batch goes on to its next row
AfterRun(w, k) ==
    IF w.type = "row_task"
    THEN /\ workers' = Retire(workers, w)
         /\ active' = active \ {Key(w)}
    ELSE /\ workers' = Step(workers, w,
                       [w EXCEPT
                          !.runs = [j \in DOMAIN w.runs |->
                              IF j = k THEN [w.runs[j] EXCEPT !.pc = "done"]
                              ELSE IF j = k + 1 /\ ~w.conc
                                   THEN [w.runs[j] EXCEPT !.pc = "begin"]
                                   ELSE w.runs[j]]])
         /\ UNCHANGED active

\* _update_row_task_current_position, then _get_eval_cell: the index of the
\* cell read, 0 when there is none; scalar_one_or_none raises on two rows
RunBegin(w, k) ==
    /\ AtRun(w, k, "begin")
    /\ LET rt == RunRow(w, k)
           ci == w.runs[k].ci
           n == Len(cells[rt][ci])
       IN /\ row_tasks' = [row_tasks EXCEPT ![rt].current_column_position = ci]
          /\ workers' = Step(workers, w,
                         [w EXCEPT
                            !.runs[k].pc = IF n > 1 THEN "fail" ELSE "eval",
                            !.runs[k].cell = IF n > 1 THEN 0 ELSE n])
    /\ UNCHANGED <<creation, cfgVars, limVars, colVars, columns, cells, result, running, spc, slots, active, llm_calls>>

\* the rest of _execute_column_for_row: create the cell when none was read,
\* acquire() when rate limiting is enabled, the evaluation, the cell update
RunEval(w, k) ==
    /\ AtRun(w, k, "eval")
    /\ LET rt == RunRow(w, k)
           run == w.runs[k]
           type == RunCol(w, k)
           created == IF run.cell = 0 THEN Append(cells[rt][run.ci], "pending")
                      ELSE cells[rt][run.ci]
           idx == IF run.cell = 0 THEN Len(created) ELSE run.cell
       IN \E o \in Outcomes(type) :
            /\ cells' = [cells EXCEPT ![rt][run.ci] =
                            IF o.cell = "same" THEN created
                            ELSE [created EXCEPT ![idx] = o.cell]]
            /\ llm_calls' = IF type \in LLMTypes
                            THEN llm_calls \cup {[worker |-> w.type,
                                                  column |-> type,
                                                  acquired |-> w.limiting]}
                            ELSE llm_calls
            /\ workers' = Step(workers, w,
                           [w EXCEPT !.runs[k] =
                             IF ~o.ok THEN [run EXCEPT !.pc = "fail", !.cell = 0]
                             ELSE IF run.ci < Len(columns)
                                  THEN [pc |-> "begin", ci |-> run.ci + 1, cell |-> 0,
                                        val |-> "none"]
                                  ELSE [run EXCEPT !.pc = "finish", !.cell = 0,
                                                   !.val = o.val]])
    /\ UNCHANGED <<creation, cfgVars, limVars, colVars, columns, row_tasks, result, running, spc, slots, active>>

\* _update_row_task_failed, return False
RunFail(w, k) ==
    /\ AtRun(w, k, "fail")
    /\ row_tasks' = [row_tasks EXCEPT ![RunRow(w, k)].status = "failed",
                                      ![RunRow(w, k)].row_result = "failed"]
    /\ AfterRun(w, k)
    /\ UNCHANGED <<creation, cfgVars, limVars, colVars, columns, cells, result, running, spc, slots, llm_calls>>

\* the row is completed as passed whatever the last column returned
RunFinishPassed(w, k) ==
    /\ AtRun(w, k, "finish")
    /\ row_tasks' = [row_tasks EXCEPT ![RunRow(w, k)].status = "completed",
                                      ![RunRow(w, k)].row_result = "passed"]
    /\ workers' = Step(workers, w, [w EXCEPT !.runs[k].pc = "stats"])
    /\ UNCHANGED <<creation, cfgVars, limVars, colVars, columns, cells, result, running, spc, slots, active, llm_calls>>

\* the verdict from the last column, _update_row_task_completed
RunFinish(w, k) ==
    /\ AtRun(w, k, "finish")
    /\ LET last_value == w.runs[k].val
           row_result == IF columns[Len(columns)] \in BooleanTypes
                         THEN (IF last_value = "true" THEN "passed" ELSE "unpassed")
                         ELSE "passed"
       IN row_tasks' = [row_tasks EXCEPT ![RunRow(w, k)].status = "completed",
                                         ![RunRow(w, k)].row_result = row_result]
    /\ workers' = Step(workers, w, [w EXCEPT !.runs[k].pc = "stats"])
    /\ UNCHANGED <<creation, cfgVars, limVars, colVars, columns, cells, result, running, spc, slots, active, llm_calls>>

\* _update_eval_result_stats, return True
RunStats(w, k) ==
    /\ AtRun(w, k, "stats")
    /\ result' = update_eval_result_stats(result, row_tasks, row_tasks[RunRow(w, k)].result_id)
    /\ AfterRun(w, k)
    /\ UNCHANGED <<creation, cfgVars, limVars, colVars, columns, row_tasks, cells, running, spc, slots, llm_calls>>

\* the end of execute_row_tasks_batch and the finally of execute_batch
BatchFinish(w) ==
    /\ w.type = "row_batch"
    /\ w.pc = "run"
    /\ \A k \in DOMAIN w.runs : w.runs[k].pc = "done"
    /\ result' = update_eval_result_stats(result, row_tasks, w.id)
    /\ workers' = Retire(workers, w)
    /\ active' = active \ {Key(w)}
    /\ UNCHANGED <<creation, cfgVars, limVars, colVars, columns, row_tasks, cells, running, spc, slots, llm_calls>>

(***************************************************************************)
(* EvalTaskManager: column tasks                                           *)
(***************************************************************************)
LiveStatuses == {"pending", "running", "retrying"}

\* the tasks _get_running_task(result_id, column_id) selects
RunningTasks(c) ==
    {t \in DOMAIN tasks : tasks[t].column_id = c /\ tasks[t].status \in LiveStatuses}

\* EvalTaskItem(status=PENDING) of _create_task_items
NewTaskItem == [status |-> "pending", retry_count |-> 0]

\* EvalTask(..., status=PENDING) of create_task_by_pipeline, with the
\* TaskItems of _create_task_items, one per dataset item
NewTask(c, m) ==
    [ column_id |-> c, status |-> "pending", current_retry |-> 0, max_retries |-> m,
      started_at |-> "null", updated_at |-> "recent", logged |-> "recent",
      next_retry_at |-> "null",
      error_message |-> "null",     \* "null" or "timeout"
      completed_items |-> 0, failed_items |-> 0,    \* total_items is the number of items
      items |-> [i \in dataset_items |-> NewTaskItem] ]

\* a request to create a task for column c arrives
CreateTaskBegin(q, c, m) ==
    /\ requests[q].pc = "idle"
    /\ requests' = [requests EXCEPT ![q] = [pc |-> "check", column_id |-> c,
                                            max_retries |-> m, resp |-> "none"]]
    /\ UNCHANGED <<creation, cfgVars, limVars, dbRowVars, tasks, exec_running, retry_calls, schedVars, llm_calls>>

\* create_task_by_pipeline up to the insert: _get_running_task finds no
\* task, or one (409), or raises on several (500)
CreateCheck(q) ==
    /\ requests[q].pc = "check"
    /\ LET n == Cardinality(RunningTasks(requests[q].column_id))
       IN requests' = [requests EXCEPT
                         ![q].pc = IF n = 0 THEN "insert" ELSE "done",
                         ![q].resp = IF n = 0 THEN "none" ELSE IF n = 1 THEN "409" ELSE "500"]
    /\ UNCHANGED <<creation, cfgVars, limVars, dbRowVars, tasks, exec_running, retry_calls, schedVars, llm_calls>>

\* the rest of create_task_by_pipeline: the task is inserted
CreateInsert(q) ==
    /\ requests[q].pc = "insert"
    /\ tasks' = Append(tasks, NewTask(requests[q].column_id, requests[q].max_retries))
    /\ requests' = [requests EXCEPT ![q].pc = "done", ![q].resp = "created"]
    /\ UNCHANGED <<creation, cfgVars, limVars, dbRowVars, exec_running, retry_calls, schedVars, llm_calls>>

\* EvalTask.can_retry
can_retry(t) == t.status = "failed" /\ t.current_retry < t.max_retries

\* _calculate_next_retry_time: the first delay of retry_delays is 0
next_retry_time(retry_count) == IF retry_count = 0 THEN "due" ELSE "later"

\* _update_task_status(task_id, status, extra_fields, log_message): the
\* status is written whatever it was, and a log row is added
update_task_status(ts, t, status) ==
    [ts EXCEPT ![t].status = status, ![t].logged = "recent"]

\* retry_task(task_id) up to the update: the task row is read in a session
\* of its own; a task that cannot be retried gets a warning in its log
RetryTaskGet(t) ==
    /\ BagCardinality(retry_calls) < MaxRetryCalls
    /\ IF can_retry(tasks[t])
       THEN /\ retry_calls' = retry_calls (+) SetToBag({[task |-> t,
                                     current_retry |-> tasks[t].current_retry]})
            /\ UNCHANGED tasks
       ELSE /\ tasks' = [tasks EXCEPT ![t].logged = "recent"]
            /\ UNCHANGED retry_calls
    /\ UNCHANGED <<creation, cfgVars, limVars, dbRowVars, requests, exec_running, schedVars, llm_calls>>

\* the rest of retry_task: _update_task_status writes retrying and the
\* counter computed from the row read before
RetryTaskUpdate(c) ==
    /\ c \in BagToSet(retry_calls)
    /\ retry_calls' = retry_calls (-) SetToBag({c})
    /\ tasks' = [update_task_status(tasks, c.task, "retrying") EXCEPT
                   ![c.task].current_retry = c.current_retry + 1,
                   ![c.task].error_message = "null",
                   ![c.task].next_retry_at = next_retry_time(c.current_retry)]
    /\ UNCHANGED <<creation, cfgVars, limVars, dbRowVars, requests, exec_running, schedVars, llm_calls>>

\* pause_task(task_id)
PauseTask(t) ==
    /\ tasks' = update_task_status(tasks, t, "paused")
    /\ UNCHANGED <<creation, cfgVars, limVars, dbRowVars, requests, retry_calls, exec_running, schedVars, llm_calls>>

\* resume_task(task_id)
ResumeTask(t) ==
    /\ tasks' = update_task_status(tasks, t, "running")
    /\ UNCHANGED <<creation, cfgVars, limVars, dbRowVars, requests, retry_calls, exec_running, schedVars, llm_calls>>

\* cancel_task(task_id)
CancelTask(t) ==
    /\ tasks' = update_task_status(tasks, t, "cancelled")
    /\ UNCHANGED <<creation, cfgVars, limVars, dbRowVars, requests, retry_calls, exec_running, schedVars, llm_calls>>

(***************************************************************************)
(* EvalTaskExecutor.execute_task, one step per await                       *)
(***************************************************************************)
\* a return of execute_task after which the key stays in the active set
ColumnReturnKeepsKey(w) ==
    /\ exec_running' = exec_running \ {w.id}
    /\ workers' = Retire(workers, w)
    /\ UNCHANGED active

\* the return of execute_task and the finally of _execute_task_with_cleanup
ColumnReturn(w) ==
    /\ exec_running' = exec_running \ {w.id}
    /\ workers' = Retire(workers, w)
    /\ active' = active \ {Key(w)}

\* the _running_tasks guard: a task already executing is refused, and the
\* finally of _execute_task_with_cleanup drops its key all the same
ColumnGuard(w) ==
    /\ w.type = "column_task"
    /\ w.pc = "guard"
    /\ IF w.id \in exec_running
       THEN /\ workers' = Retire(workers, w)
            /\ active' = active \ {Key(w)}
            /\ UNCHANGED exec_running
       ELSE /\ exec_running' = exec_running \cup {w.id}
            /\ workers' = Step(workers, w, [w EXCEPT !.pc = "get"])
            /\ UNCHANGED active
    /\ UNCHANGED <<creation, cfgVars, limVars, dbRowVars, tasks, requests, retry_calls, running, spc, slots, llm_calls>>

\* _get_task and the status check; the worker keeps the task object it
\* read, of which seen holds completed_items and failed_items
ColumnGet(w) ==
    /\ w.type = "column_task"
    /\ w.pc = "get"
    /\ IF tasks[w.id].status \in {"pending", "retrying"}
       THEN /\ workers' = Step(workers, w,
                  [w EXCEPT !.pc = "start",
                            !.seen = <<tasks[w.id].completed_items, tasks[w.id].failed_items>>])
            /\ UNCHANGED <<exec_running, active>>
       ELSE ColumnReturn(w)
    /\ UNCHANGED <<creation, cfgVars, limVars, dbRowVars, tasks, requests, retry_calls, running, spc, slots, llm_calls>>

\* start_task(task_id) and the log row
ColumnStart(w) ==
    /\ w.type = "column_task"
    /\ w.pc = "start"
    /\ tasks' = [update_task_status(tasks, w.id, "running") EXCEPT ![w.id].started_at = "recent"]
    /\ workers' = Step(workers, w, [w EXCEPT !.pc = "pending_items"])
    /\ UNCHANGED <<creation, cfgVars, limVars, dbRowVars, requests, retry_calls, exec_running,
                   running, spc, slots, active, llm_calls>>

\* the TaskItems _get_pending_task_items(task_id) returns
PendingItems(t) == {i \in DOMAIN tasks[t].items : tasks[t].items[i].status = "pending"}

\* _get_pending_task_items: with no pending item the task is completed at
\* once, else _execute_task_items gathers one execute_task_item per item
\* (max_concurrent_items_per_task is larger than the dataset)
ColumnPendingItems(w) ==
    /\ w.type = "column_task"
    /\ w.pc = "pending_items"
    /\ workers' = Step(workers, w,
                    IF PendingItems(w.id) = {}
                    THEN [w EXCEPT !.pc = "completed"]
                    ELSE [w EXCEPT !.pc = "items",
                                   !.runs = [i \in DOMAIN tasks[w.id].items |->
                                               IF i \in PendingItems(w.id) THEN "wait" ELSE "skip"]])
    /\ UNCHANGED <<creation, cfgVars, limVars, dbRowVars, colVars, running, spc, slots, active, llm_calls>>

\* execute_task_item up to the evaluation: an item that is not pending is
\* refused (False), a pending one is set running
ItemBegin(w, i) ==
    /\ w.type = "column_task"
    /\ w.pc = "items"
    /\ i \in DOMAIN w.runs
    /\ w.runs[i] = "wait"
    /\ IF tasks[w.id].items[i].status = "pending"
       THEN /\ tasks' = [tasks EXCEPT ![w.id].items[i].status = "running"]
            /\ workers' = Step(workers, w, [w EXCEPT !.runs[i] = "run"])
       ELSE /\ workers' = Step(workers, w, [w EXCEPT !.runs[i] = "false"])
            /\ UNCHANGED tasks
    /\ UNCHANGED <<creation, cfgVars, limVars, dbRowVars, requests, retry_calls, exec_running,
                   running, spc, slots, active, llm_calls>>

\* what execute_task_item returns: True, True after an evaluation that
\* reported success = False (exact_multi_match: the item is failed), False,
\* or False after _execute_evaluation raised a RetryableError (the except
\* of execute_task_item catches it)
ItemResults == {"true", "reported", "false", "retryable"}

\* _execute_evaluation: exact_multi_match alone returns success = passed,
\* every other column type returns success = True or raises (the tasks of
\* a specification without columns are of any type)
ItemResultsOf(t) ==
    IF columns = <<>> \/ columns[tasks[t].column_id] = "exact_multi_match"
    THEN ItemResults
    ELSE ItemResults \ {"reported"}

\* _update_eval_cell(cell_id, result) for the cell of item i of task t, when
\* that row exists: "completed" stands for a completed cell whose value is
\* true or is not a boolean, "completed_false" for one whose value is false
update_eval_cell(cs, t, i, status) ==
    IF /\ i \in DOMAIN cs
       /\ tasks[t].column_id \in DOMAIN cs[i]
       /\ cs[i][tasks[t].column_id] # <<>>
    THEN [cs EXCEPT ![i][tasks[t].column_id][1] = status]
    ELSE cs

\* the rest of execute_task_item: the item and its cell are completed or
\* failed, and a log row is written
ItemEnd(w, i) ==
    /\ w.type = "column_task"
    /\ w.pc = "items"
    /\ i \in DOMAIN w.runs
    /\ w.runs[i] = "run"
    /\ \E o \in ItemResultsOf(w.id) :
         /\ tasks' = [tasks EXCEPT
                         ![w.id].items[i].status = IF o = "true" THEN "completed" ELSE "failed",
                         ![w.id].logged = "recent"]
         /\ workers' = Step(workers, w, [w EXCEPT !.runs[i] = o])
         /\ \E v \in IF o = "true" THEN {"completed", "completed_false"} ELSE {"failed"} :
               cells' = update_eval_cell(cells, w.id, i, v)
    /\ UNCHANGED <<creation, cfgVars, limVars, columns, row_tasks, result, requests, retry_calls,
                   exec_running, running, spc, slots, active, llm_calls>>

\* what _execute_task_items comes to: "completed" when at least one item
\* returned True, "failed" when none did, "failed_retryable" when none did
\* and one of them raised a RetryableError
ItemsOutcomes == {"completed", "failed", "failed_retryable"}

ItemsOutcome(runs) ==
    IF \E i \in DOMAIN runs : runs[i] \in {"true", "reported"} THEN "completed"
    ELSE IF \E i \in DOMAIN runs : runs[i] = "retryable" THEN "failed_retryable"
    ELSE "failed"

\* the end of _execute_task_items, after the gather: the items that
\* returned True and the others are counted and added to the counters of
\* the task object the worker read, update_task_progress writes the sums,
\* and a log row is written
ColumnItems(w) ==
    /\ w.type = "column_task"
    /\ w.pc = "items"
    /\ \A i \in DOMAIN w.runs : w.runs[i] \in ItemResults \cup {"skip"}
    /\ workers' = Step(workers, w, [w EXCEPT !.pc = ItemsOutcome(w.runs), !.runs = <<>>])
    /\ LET completed_count == Cardinality({i \in DOMAIN w.runs : w.runs[i] \in {"true", "reported"}})
           failed_count == Cardinality({i \in DOMAIN w.runs : w.runs[i] \in {"false", "retryable"}})
       IN tasks' = [tasks EXCEPT ![w.id].completed_items = w.seen[1] + completed_count,
                                 ![w.id].failed_items = w.seen[2] + failed_count,
                                 ![w.id].updated_at = "recent", ![w.id].logged = "recent"]
    /\ UNCHANGED <<creation, cfgVars, limVars, dbRowVars, requests, retry_calls, exec_running,
                   running, spc, slots, active, llm_calls>>

\* executable_columns of create_evaluation_tasks
executable_columns(cols) ==
    {i \in 1..Len(cols) : cols[i] \notin {"dataset_variable", "human_input"}}

\* the completed cells of column c, one pair per cell row
CompletedCells(cs, c, values) ==
    UNION { {<<d, j>> : j \in {k \in DOMAIN cs[d][c] : cs[d][c][k] \in values}} :
              d \in {x \in DOMAIN cs : c \in DOMAIN cs[x]} }

\* _check_and_update_eval_result_stats(pipeline_id, result_id, column_id):
\* nothing is written unless column c is the last evaluation column and no
\* task of that column is pending, running or retrying; then the counts of
\* the EvalResult are written from the completed cells of that column
check_and_update_eval_result_stats(res, ts, cs, c) ==
    LET eval_columns == executable_columns(columns)
    IN IF eval_columns = {} THEN res
       ELSE LET last_column == Max(eval_columns)
            IN IF c # last_column THEN res
               ELSE IF \E u \in DOMAIN ts :
                          ts[u].column_id = last_column /\ ts[u].status \in LiveStatuses
                    THEN res
                    ELSE [res EXCEPT
                            !.total_count = Cardinality(CompletedCells(cs, last_column,
                                                {"completed", "completed_false"})),
                            !.passed_count = Cardinality(CompletedCells(cs, last_column,
                                                {"completed"})),
                            !.failed_count = Cardinality(CompletedCells(cs, last_column,
                                                {"completed_false"}))]

\* complete_task(task_id, success): the statistics of the EvalResult are
\* looked at first, then the status of the task is written
ColumnComplete(w) ==
    /\ w.type = "column_task"
    /\ w.pc \in ItemsOutcomes
    /\ result' = check_and_update_eval_result_stats(result, tasks, cells, tasks[w.id].column_id)
    /\ tasks' = update_task_status(tasks, w.id, IF w.pc = "completed" THEN "completed" ELSE "failed")
    /\ ColumnReturn(w)
    /\ UNCHANGED <<creation, cfgVars, limVars, columns, row_tasks, cells, requests, retry_calls,
                   running, spc, slots, llm_calls>>

(***************************************************************************)
(* EvalTaskScheduler                                                       *)
(***************************************************************************)
\* _execute_task_with_cleanup(task, task_key) for a ColumnTaskAdapter
ColumnWorker(t) ==
    [ type |-> "column_task", id |-> t, pc |-> "guard", ids |-> {},
      rows |-> <<>>, runs |-> <<>>, limiting |-> FALSE, conc |-> FALSE,
      seen |-> <<0, 0>> ]

\* _get_interrupted_row_tasks and _is_row_task_really_interrupted: both
\* compare updated_at, the second with the shorter span
interrupted_row_tasks(rts) ==
    {r \in DOMAIN rts : rts[r].status = "running" /\ rts[r].updated_at = "old"}

InterruptedRows == interrupted_row_tasks(row_tasks)

\* _get_interrupted_column_tasks and _is_column_task_really_interrupted
interrupted_column_tasks(ts) ==
    {t \in DOMAIN ts :
        ts[t].status = "running" /\ ts[t].updated_at = "old" /\ ts[t].logged = "old"}

InterruptedTasks == interrupted_column_tasks(tasks)

\* _update_row_task_status(id, status, extra_fields) of the scheduler
update_row_task_status(rts, S, status, started) ==
    [r \in DOMAIN rts |->
        IF r \in S
        THEN [rts[r] EXCEPT !.status = status, !.updated_at = "recent", !.started_at = started]
        ELSE rts[r]]

\* _reset_running_task_items(task_id): running TaskItems go back to pending
reset_running_task_items(items) ==
    [i \in DOMAIN items |->
        IF items[i].status = "running" THEN [items[i] EXCEPT !.status = "pending"]
        ELSE items[i]]

\* _reset_failed_task_items(task_id): failed TaskItems go back to pending
\* with one more retry counted
reset_failed_task_items(items) ==
    [i \in DOMAIN items |->
        IF items[i].status = "failed"
        THEN [items[i] EXCEPT !.status = "pending", !.retry_count = @ + 1]
        ELSE items[i]]

\* a recovery that restarts the interrupted task in place: the task stays
\* running, a retry is counted and no log row is written
requeue_column_tasks(ts) ==
    [t \in DOMAIN ts |->
        IF t \in interrupted_column_tasks(ts)
        THEN [ts[t] EXCEPT !.current_retry = @ + 1,
                           !.items = reset_running_task_items(@)]
        ELSE ts[t]]

\* recover_interrupted_tasks, the column tasks: pending again, started_at
\* cleared, a log row, the running items reset
recover_column_tasks(ts) ==
    [t \in DOMAIN ts |->
        IF t \in interrupted_column_tasks(ts)
        THEN [ts[t] EXCEPT !.status = "pending", !.started_at = "null",
                           !.logged = "recent",
                           !.items = reset_running_task_items(@)]
        ELSE ts[t]]

\* recover_interrupted_tasks, the row tasks: pending again
recover_row_tasks(rts) ==
    update_row_task_status(rts, interrupted_row_tasks(rts), "pending", "null")

\* start_scheduler: the loop is created, then recover_interrupted_tasks
\* puts the interrupted running tasks back to pending
StartScheduler ==
    /\ ~running
    /\ running' = TRUE
    /\ spc # "off" => BagCardinality(old_loops) < MaxOldLoops
    /\ old_loops' = IF spc = "off" THEN old_loops ELSE old_loops (+) SetToBag({spc})
    /\ spc' = "pending"
    /\ row_tasks' = recover_row_tasks(row_tasks)
    /\ tasks' = recover_column_tasks(tasks)
    /\ UNCHANGED <<creation, max_concurrent_tasks, dataset_items, engine, limVars, columns, cells,
                   result, requests, retry_calls, exec_running, slots, active, workers, llm_calls>>

\* stop_scheduler: the loop is cancelled, the spawned workers are not
StopScheduler ==
    /\ running
    /\ running' = FALSE
    /\ spc' = "off"
    /\ UNCHANGED <<creation, cfgVars, limVars, dbRowVars, colVars, slots, active, workers, llm_calls>>

\* schedule_pending_tasks up to the await of _get_pending_tasks_unified
TickPendingBegin ==
    /\ spc = "pending"
    /\ IF Cardinality(active) >= max_concurrent_tasks
       THEN spc' = "retry" /\ UNCHANGED slots
       ELSE spc' = "fetch" /\ slots' = max_concurrent_tasks - Cardinality(active)
    /\ UNCHANGED <<creation, cfgVars, limVars, dbRowVars, colVars, running, active, workers, llm_calls>>

\* _get_pending_column_tasks(limit): the first pending task of each result
\* by priority (all tasks of the model share one result; the priority of a
\* task is the position of its column), cut by LIMIT limit // 2
PendingColumnTasks(limit) ==
    LET pending == {t \in DOMAIN tasks : tasks[t].status = "pending"}
        first == {t \in pending : \A u \in pending : tasks[t].column_id <= tasks[u].column_id}
    IN IF limit \div 2 = 0 \/ pending = {} THEN {<<>>}
       ELSE {<<ColumnWorker(t)>> : t \in first}

\* _get_pending_row_tasks(limit) of the scheduler: the pending row with the
\* smallest id of each result, cut by LIMIT limit // 2
PendingRowTasks(limit) ==
    LET pending == {r \in DOMAIN row_tasks : row_tasks[r].status = "pending"}
    IN IF limit \div 2 = 0 \/ pending = {} THEN <<>>
       ELSE <<RowWorker(CHOOSE r \in pending : \A q \in pending : r <= q)>>

\* the rest of schedule_pending_tasks: every task returned gets its key
\* added and a worker spawned
TickPendingDispatch ==
    /\ spc = "fetch"
    /\ \E cs \in PendingColumnTasks(slots) :
         LET spawned == cs \o PendingRowTasks(slots)
         IN /\ BagCardinality(workers) + Len(spawned) <= MaxWorkers
            /\ workers' = SpawnAll(workers, spawned)
            /\ active' = active \cup {Key(spawned[i]) : i \in DOMAIN spawned}
    /\ spc' = "retry"
    /\ slots' = 0
    /\ UNCHANGED <<creation, cfgVars, limVars, dbRowVars, colVars, running, llm_calls>>

\* every retrying task, whatever its next_retry_at
RetryColumnTasksAnyTime == {t \in DOMAIN tasks : tasks[t].status = "retrying"}

\* _get_retry_column_tasks: retrying tasks whose next_retry_at has come
RetryColumnTasks == {t \in DOMAIN tasks : tasks[t].status = "retrying" /\ tasks[t].next_retry_at # "later"}

\* the loop of schedule_retry_tasks over the tasks todo, in list order:
\* the tasks it dispatches when act holds the active keys
RECURSIVE RetryDispatch(_, _)
RetryDispatch(todo, act) ==
    IF todo = {} THEN {}
    ELSE LET t == CHOOSE x \in todo : \A y \in todo : x <= y
         IN IF <<"column_task", t>> \in act
            THEN RetryDispatch(todo \ {t}, act)
            ELSE IF Cardinality(act) >= max_concurrent_tasks THEN {}
            ELSE {t} \cup RetryDispatch(todo \ {t}, act \cup {<<"column_task", t>>})

\* schedule_retry_tasks (_get_retry_row_tasks returns no row)
TickRetry ==
    /\ spc = "retry"
    /\ LET chosen == RetryDispatch(RetryColumnTasks, active)
           spawned == [i \in 1..Cardinality(chosen) |-> ColumnWorker(SetToSeq(chosen)[i])]
       IN /\ BagCardinality(workers) + Len(spawned) <= MaxWorkers
          /\ workers' = SpawnAll(workers, spawned)
          /\ active' = active \cup {<<"column_task", t>> : t \in chosen}
          /\ tasks' = [t \in DOMAIN tasks |->
                         IF t \in chosen
                         THEN [tasks[t] EXCEPT !.items = reset_failed_task_items(@)]
                         ELSE tasks[t]]
    /\ spc' = "cleanup"
    /\ UNCHANGED <<creation, cfgVars, limVars, dbRowVars, requests, retry_calls, exec_running, running, slots, llm_calls>>

\* the sweep without the activity check: running and started before the
\* cutoff
TimeoutTasksAnyLog ==
    {t \in DOMAIN tasks : tasks[t].status = "running" /\ tasks[t].started_at = "old"}

\* _cleanup_timeout_column_tasks: running, started before the cutoff, no
\* recent log
TimeoutTasks ==
    {t \in DOMAIN tasks :
        tasks[t].status = "running" /\ tasks[t].started_at = "old" /\ tasks[t].logged = "old"}

\* _cleanup_timeout_row_tasks: running, started before the cutoff, not
\* updated recently
TimeoutRows ==
    {r \in DOMAIN row_tasks :
        /\ row_tasks[r].status = "running"
        /\ row_tasks[r].started_at = "old"
        /\ row_tasks[r].updated_at = "old"}

\* _cleanup_timeout_tasks: the timed-out tasks are failed, their keys dropped
TickCleanup ==
    /\ spc = "cleanup"
    /\ tasks' = [t \in DOMAIN tasks |->
                   IF t \in TimeoutTasks
                   THEN [tasks[t] EXCEPT !.status = "failed", !.logged = "recent",
                                         !.error_message = "timeout"]
                   ELSE tasks[t]]
    /\ row_tasks' = [r \in DOMAIN row_tasks |->
                       IF r \in TimeoutRows
                       THEN [row_tasks[r] EXCEPT !.status = "failed", !.updated_at = "recent"]
                       ELSE row_tasks[r]]
    /\ active' = (active \ {<<"column_task", t>> : t \in TimeoutTasks})
                        \ {<<"row_task", r>> : r \in TimeoutRows}
    /\ spc' = "sleep"
    /\ UNCHANGED <<creation, cfgVars, limVars, columns, cells, result, requests, retry_calls, exec_running,
                   running, slots, workers, llm_calls>>

\* asyncio.sleep(scheduler_interval_seconds) is over; the while condition
TickSleep ==
    /\ spc = "sleep"
    /\ spc' = IF running THEN "pending" ELSE "off"
    /\ UNCHANGED <<creation, cfgVars, limVars, dbRowVars, colVars, running, slots, active, workers, llm_calls>>

\* force_schedule_row_task_batch(result_id, dataset_item_ids)
ForceScheduleRowTaskBatch(rid, ids) ==
    /\ Cardinality(active) < max_concurrent_tasks
    /\ <<"row_batch", rid>> \notin active
    /\ BagCardinality(workers) < MaxWorkers
    /\ active' = active \cup {<<"row_batch", rid>>}
    /\ workers' = Spawn(workers, BatchWorker(rid, ids))
    /\ UNCHANGED <<creation, cfgVars, limVars, dbRowVars, colVars, running, spc, slots, llm_calls>>

\* task_timeout_minutes go by: every timestamp now lies before the cutoff
\* (no query reads the timestamps of a finished task, they are left alone)
Elapse ==
    /\ row_tasks' = [r \in DOMAIN row_tasks |->
                       IF is_finished(row_tasks[r]) THEN row_tasks[r]
                       ELSE [row_tasks[r] EXCEPT
                               !.updated_at = "old",
                               !.started_at = IF @ = "null" THEN "null" ELSE "old"]]
    /\ tasks' = [t \in DOMAIN tasks |->
                   IF tasks[t].status \in {"completed", "failed", "cancelled"} THEN tasks[t]
                   ELSE [tasks[t] EXCEPT
                           !.updated_at = "old", !.logged = "old",
                           !.started_at = IF @ = "null" THEN "null" ELSE "old",
                           !.next_retry_at = IF @ = "later" THEN "due" ELSE @]]
    /\ UNCHANGED <<creation, cfgVars, limVars, columns, cells, result, requests, retry_calls, exec_running, schedVars, llm_calls>>

\* the five minutes of the activity check go by: the last log row of every
\* task is now older than the window of _is_column_task_really_interrupted
ElapseShort ==
    /\ tasks' = [t \in DOMAIN tasks |->
                   IF tasks[t].status \in {"completed", "failed", "cancelled"} THEN tasks[t]
                   ELSE [tasks[t] EXCEPT !.logged = "old"]]
    /\ UNCHANGED <<creation, cfgVars, limVars, dbRowVars, requests, retry_calls, exec_running, schedVars, llm_calls>>

\* the process dies and is started again: the database rows stay, the
\* scheduler, its workers and every call in flight are gone
Crash ==
    /\ running
    /\ running' = FALSE
    /\ spc' = "off"
    /\ slots' = 0
    /\ active' = {}
    /\ workers' = EmptyBag
    /\ exec_running' = {}
    /\ retry_calls' = EmptyBag
    /\ requests' = [q \in Requests |->
                      [pc |-> "idle", column_id |-> 0, max_retries |-> 0, resp |-> "none"]]
    /\ UNCHANGED <<creation, cfgVars, limVars, dbRowVars, tasks, llm_calls>>

\* _get_dataset_items_by_ids and _get_all_dataset_items_for_result: the
\* enabled items among the ids given, every enabled item when none is given
enabled_items(ids) == IF ids # {} THEN ids \cap dataset_items ELSE dataset_items

\* create_row_tasks_for_result: one pending RowTask per item found, in one
\* bulk insert; the unique index uk_result_dataset_item rejects the whole
\* insert when one of the items has a RowTask already (the except returns [])
create_row_tasks_for_result(rts, rid, ids) ==
    LET items == enabled_items(ids)
    IN IF items \cap DOMAIN rts # {} THEN rts
       ELSE [r \in DOMAIN rts \cup items |->
                IF r \in items THEN NewRowTask(rid) ELSE rts[r]]

\* what create_row_tasks_for_result returns: the RowTasks of the Result
\* after a successful insert, [] otherwise
created_row_tasks(rts, ids) ==
    IF enabled_items(ids) = {} \/ enabled_items(ids) \cap DOMAIN rts # {}
    THEN {}
    ELSE DOMAIN rts \cup enabled_items(ids)

\* EvalRowTaskManager.execute_row_tasks_batch: create_row_tasks_for_result,
\* the result is set running, and failed when the scheduler refuses the
\* batch
ExecuteRowTasksBatch(rid, ids) ==
    /\ result.status # "none"
    /\ row_tasks' = create_row_tasks_for_result(row_tasks, rid, ids)
    /\ creation' = [creation EXCEPT !.selected = @ \cup enabled_items(ids)]
    /\ IF /\ Cardinality(active) < max_concurrent_tasks
          /\ <<"row_batch", rid>> \notin active
       THEN /\ BagCardinality(workers) < MaxWorkers
            /\ result' = [result EXCEPT !.status = "running"]
            /\ active' = active \cup {<<"row_batch", rid>>}
            /\ workers' = Spawn(workers, BatchWorker(rid, ids))
            /\ UNCHANGED <<cfgVars, limVars, columns, cells, colVars, running, spc, slots, llm_calls>>
       ELSE /\ result' = [result EXCEPT !.status = "failed"]
            /\ UNCHANGED <<cfgVars, limVars, columns, cells, colVars, schedVars, llm_calls>>

(***************************************************************************)
(* Row mode: a Result whose row tasks were just created                    *)
(***************************************************************************)
\* create_result_with_row_execution up to its call of the scheduler; the
\* row executor's limiter has the defaults of EvalRowTaskExecutor.__init__
RowInitWith(rows, P, caps) ==
    /\ LimiterInitWith({2}, {60})
    /\ creation = [resp |-> "ok", execution_mode |-> "row_based", selected |-> rows]
    /\ engine = [has_values |-> FALSE, values |-> <<>>, stored |-> <<>>, calls |-> <<>>]
    /\ columns \in P
    /\ row_tasks = [r \in rows |-> NewRowTask(CHOOSE rid \in Results : TRUE)]
    /\ cells = [r \in rows |-> [i \in 1..Len(columns) |-> <<>>]]
    /\ result = [ status |-> "new", prompt_versions |-> PromptVersions(columns),
                  total_count |-> 0, passed_count |-> 0, unpassed_count |-> 0,
                  failed_count |-> 0 ]
    /\ llm_calls = {}
    /\ ColIdleWith(rows)
    /\ SchedulerInit(caps)

RowInit == RowInitWith(RowIds, BatchPipelines, {MaxConcurrentTasks - 1})

\* the dataset_item_ids a caller passes: none (every row) or the last row
ForceIds == {{}, {NumRows}}

RowNext ==
    \/ StartScheduler
    \/ TickPendingBegin
    \/ TickPendingDispatch
    \/ TickRetry
    \/ TickCleanup
    \/ TickSleep
    \/ \E rid \in Results, ids \in ForceIds : ForceScheduleRowTaskBatch(rid, ids)
    \/ \E rid \in Results, ids \in ForceIds : ExecuteRowTasksBatch(rid, ids)
    \/ \E w \in Live : BatchFetch(w)
    \/ \E w \in Live : BatchMark(w)
    \/ \E w \in Live : RowColumns(w)
    \/ \E w \in Live : BatchFinish(w)
    \/ \E w \in Live, k \in RowIds : RunBegin(w, k)
    \/ \E w \in Live, k \in RowIds : RunEval(w, k)
    \/ \E w \in Live, k \in RowIds : RunFail(w, k)
    \/ \E w \in Live, k \in RowIds : RunFinish(w, k)
    \/ \E w \in Live, k \in RowIds : RunStats(w, k)

SpecRow == RowInit /\ [][RowNext]_vars

(***************************************************************************)
(* Row mode with one row, left to the scheduler loop                       *)
(***************************************************************************)
OneRowPipelines ==
    { <<"prompt_template">>,
      <<"dataset_variable", "contains">> }


TickNext ==
    \/ StartScheduler
    \/ TickPendingBegin
    \/ TickPendingDispatch
    \/ TickRetry
    \/ TickCleanup
    \/ TickSleep
    \/ \E w \in Live : RowColumns(w)
    \/ \E w \in Live, k \in RowIds : RunBegin(w, k)
    \/ \E w \in Live, k \in RowIds : RunEval(w, k)
    \/ \E w \in Live, k \in RowIds : RunFail(w, k)
    \/ \E w \in Live, k \in RowIds : RunFinish(w, k)
    \/ \E w \in Live, k \in RowIds : RunStats(w, k)

SpecTick == RowInitWith({1}, OneRowPipelines, {MaxConcurrentTasks}) /\ [][TickNext]_vars

(***************************************************************************)
(* Row mode with one row: restarts of the scheduler and the passing of the *)
(* task timeout are followed too                                           *)
(***************************************************************************)
OneRowInit == RowInitWith({1}, OneRowPipelines, {MaxConcurrentTasks - 1})

OneRowNext ==
    \/ RowNext
    \/ StopScheduler
    \/ Elapse

SpecOneRow == OneRowInit /\ [][OneRowNext]_vars

(***************************************************************************)
(* Row mode with a forced batch of every row while the task timeout passes *)
(***************************************************************************)
SweepPipelines == { <<"prompt_template", "exact_match">> }

SweepInit == RowInitWith(RowIds, SweepPipelines, {MaxConcurrentTasks - 1})

SweepNext ==
    \/ StartScheduler
    \/ TickPendingBegin
    \/ TickPendingDispatch
    \/ TickRetry
    \/ TickCleanup
    \/ TickSleep
    \/ Elapse
    \/ \E rid \in Results : ForceScheduleRowTaskBatch(rid, {})
    \/ \E w \in Live : BatchFetch(w)
    \/ \E w \in Live : BatchMark(w)
    \/ \E w \in Live : RowColumns(w)
    \/ \E w \in Live : BatchFinish(w)
    \/ \E w \in Live, k \in RowIds : RunBegin(w, k)
    \/ \E w \in Live, k \in RowIds : RunEval(w, k)
    \/ \E w \in Live, k \in RowIds : RunFail(w, k)
    \/ \E w \in Live, k \in RowIds : RunFinish(w, k)
    \/ \E w \in Live, k \in RowIds : RunStats(w, k)

SpecSweep == SweepInit /\ [][SweepNext]_vars

(***************************************************************************)
(* Column mode: requests to create a task, nothing else going on           *)
(***************************************************************************)
ColumnInit(caps) ==
    /\ LimiterInitWith({2}, {60})
    /\ RowIdle
    /\ ColIdle
    /\ SchedulerInit(caps)


CreateNext ==
    \/ \E q \in Requests, c \in ColumnIds, m \in 0..MaxRetries : CreateTaskBegin(q, c, m)
    \/ \E q \in Requests : CreateCheck(q)
    \/ \E q \in Requests : CreateInsert(q)

SpecCreate == ColumnInit({MaxConcurrentTasks}) /\ [][CreateNext]_vars

(***************************************************************************)
(* Column mode: the manager, the scheduler and the column workers          *)
(***************************************************************************)
ColumnNext ==
    \/ CreateNext
    \/ Elapse
    \/ StartScheduler
    \/ StopScheduler
    \/ TickPendingBegin
    \/ TickPendingDispatch
    \/ TickRetry
    \/ TickCleanup
    \/ TickSleep
    \/ \E w \in Live : ColumnGuard(w)
    \/ \E w \in Live : ColumnGet(w)
    \/ \E w \in Live : ColumnStart(w)
    \/ \E w \in Live : ColumnPendingItems(w)
    \/ \E w \in Live, i \in dataset_items : ItemBegin(w, i)
    \/ \E w \in Live, i \in dataset_items : ItemEnd(w, i)
    \/ \E w \in Live : ColumnItems(w)
    \/ \E w \in Live : ColumnComplete(w)

SpecColumn == ColumnInit({MaxConcurrentTasks - 1}) /\ [][ColumnNext]_vars

(***************************************************************************)
(* Properties of the task manager                                          *)
(***************************************************************************)
\* C1: there are never two distinct ColumnTasks of the same (result,
\* column) whose status is pending, running or retrying.
C1_SingleFlightPerColumn == \A c \in ColumnIds : Cardinality(RunningTasks(c)) <= 1

\* C2: of two answered requests to create a task for the same (result,
\* column) exactly one created a task and the other one got a 409, and
\* only one task of that column exists.
C2_ExactlyOneCreated ==
    \A p \in Requests, q \in Requests :
        /\ p # q
        /\ requests[p].pc = "done" /\ requests[q].pc = "done"
        /\ requests[p].column_id = requests[q].column_id
        => /\ {requests[p].resp, requests[q].resp} = {"created", "409"}
           /\ Cardinality({t \in DOMAIN tasks : tasks[t].column_id = requests[p].column_id}) = 1

(***************************************************************************)
(* Properties of the scheduler and the row executor                        *)
(***************************************************************************)
\* C3: at every moment the number of live workers the scheduler spawned
\* (column-task, row-task and row-batch workers together) is at most
\* max_concurrent_tasks.
C3_ConcurrencyCap == BagCardinality(workers) <= max_concurrent_tasks

\* C4: at most one live worker per active key: no two workers carry the
\* same (task type, id) key, in particular no two row-batch workers the
\* same result.
C4_OneWorkerPerKey ==
    \A w \in Live :
        /\ CopiesIn(w, workers) = 1
        /\ \A v \in Live : v # w => Key(v) # Key(w)

\* the rows a worker is executing: a tick worker its row from the spawn to
\* its return, a batch worker the rows whose _execute_single_row_task runs
Executing(w) ==
    IF w.type = "row_task" THEN {w.id}
    ELSE IF w.type = "row_batch" /\ w.pc = "run"
         THEN {w.rows[k] : k \in {j \in DOMAIN w.runs : w.runs[j].pc \notin {"wait", "done"}}}
         ELSE {}

\* C5: no RowTask is executed at the same time by a tick-dispatched
\* row-task worker and by a forced row-batch worker.
C5_SingleOwner ==
    \A w \in Live, v \in Live :
        w.type = "row_task" /\ v.type = "row_batch" => Executing(w) \cap Executing(v) = {}

\* C7: a batch of a Result with a non-empty prompt_versions snapshot has
\* started a row only when the previous row of the batch is completed or
\* failed; a batch of a Result with an empty snapshot has started all its
\* rows at once.
C7_RowSerialisation ==
    \A w \in Live :
        w.type = "row_batch" /\ w.pc = "run" =>
            IF result.prompt_versions # {}
            THEN \A k \in DOMAIN w.runs :
                    k > 1 /\ w.runs[k].pc # "wait" => is_finished(row_tasks[w.rows[k - 1]])
            ELSE \A k \in DOMAIN w.runs : w.runs[k].pc # "wait"

\* a serial batch of two rows is at the second row, the first one finished
C7_Witness ==
    \E w \in Live :
        /\ w.type = "row_batch" /\ w.pc = "run"
        /\ result.prompt_versions # {}
        /\ Len(w.runs) = NumRows
        /\ w.runs[NumRows].pc = "eval"

\* C8: every LLM invocation of the row executor for a prompt_template or
\* llm_assertion column comes right after an acquire() on the rate limiter,
\* in a forced batch and in a tick-dispatched row task alike.
C8_AcquireBeforeLLM == \A c \in llm_calls : c.acquired

\* C9: whenever current_column_position of a RowTask is p, every column
\* with a position below p has its Cell of that row in status completed.
C9_OrderedDataFlow ==
    \A r \in DOMAIN row_tasks, i \in ColIdx :
        i < row_tasks[r].current_column_position =>
            /\ cells[r][i] # <<>>
            /\ \A j \in DOMAIN cells[r][i] : cells[r][i][j] = "completed"

\* C10: a RowTask changes status only from pending to running and from
\* running to completed or failed.
C10_RowLifecycle ==
    [][\A r \in DOMAIN row_tasks :
          row_tasks'[r].status # row_tasks[r].status =>
              <<row_tasks[r].status, row_tasks'[r].status>> \in
                  {<<"pending", "running">>, <<"running", "completed">>,
                   <<"running", "failed">>}]_vars

\* admissions whose timestamp lies in (t - span, t]
InWindow(t, span) == {i \in 1..Len(admitted) : t - span < admitted[i] /\ admitted[i] <= t}

\* C6: for every time t, at most qps admissions have a timestamp in
\* (t - 1 s, t] and at most qpm have one in (t - 60 s, t].
C6_RateBound ==
    \A t \in 0..MaxTime :
        /\ Cardinality(InWindow(t, SecondTicks)) <= qps
        /\ Cardinality(InWindow(t, MinuteTicks)) <= qpm

(***************************************************************************)
(* Properties of the terminal states, the retries and the recovery         *)
(***************************************************************************)
\* C11: every RowTask whose status is completed or failed has a row_result
\* of passed, unpassed or failed, never null.
C11_TerminalHasResult ==
    \A r \in DOMAIN row_tasks :
        is_finished(row_tasks[r]) => row_tasks[r].row_result \in {"passed", "unpassed", "failed"}

\* C12: every Result whose status is completed has total_count equal to
\* passed_count + unpassed_count + failed_count.
C12_CountsAddUp ==
    result.status = "completed" =>
        result.total_count = result.passed_count + result.unpassed_count + result.failed_count

\* C13: when the execution of a ColumnTask ends on a RetryableError and the
\* task has fewer retries done than max_retries, the task is put in
\* retrying; with no retry left it is put in failed.
C13_RetryableIsRetried ==
    [][\A w \in Live :
          /\ w.type = "column_task" /\ w.pc = "failed_retryable"
          /\ workers' = Retire(workers, w)
          => tasks'[w.id].status =
                IF tasks[w.id].current_retry < tasks[w.id].max_retries
                THEN "retrying" ELSE "failed"]_vars

(***************************************************************************)
(* Column mode: one task created, retry_task calls and the scheduler       *)
(***************************************************************************)
\* the state after one create_task_by_pipeline for column 1 with
\* max_retries m over the dataset D
OneTask(D, m) ==
    /\ dataset_items = D
    /\ tasks = <<NewTask(1, m)>>
    /\ requests = [q \in Requests |->
                     [pc |-> "idle", column_id |-> 0, max_retries |-> 0, resp |-> "none"]]
    /\ exec_running = {}
    /\ retry_calls = EmptyBag

TaskInit(caps, D, m) ==
    /\ LimiterInitWith({2}, {60})
    /\ RowIdle
    /\ OneTask(D, m)
    /\ SchedulerInit(caps)

\* the scheduler loop and the column workers it spawns
ColumnRunNext ==
    \/ StartScheduler
    \/ TickPendingBegin
    \/ TickPendingDispatch
    \/ TickRetry
    \/ TickCleanup
    \/ TickSleep
    \/ \E w \in Live : ColumnGuard(w)
    \/ \E w \in Live : ColumnGet(w)
    \/ \E w \in Live : ColumnStart(w)
    \/ \E w \in Live : ColumnPendingItems(w)
    \/ \E w \in Live, i \in dataset_items : ItemBegin(w, i)
    \/ \E w \in Live, i \in dataset_items : ItemEnd(w, i)
    \/ \E w \in Live : ColumnItems(w)
    \/ \E w \in Live : ColumnComplete(w)

RetryInit == TaskInit({MaxConcurrentTasks - 1}, 1..1, MaxRetries)

RetryNext ==
    \/ ColumnRunNext
    \/ \E t \in DOMAIN tasks : RetryTaskGet(t)
    \/ \E c \in BagToSet(retry_calls) : RetryTaskUpdate(c)

SpecRetry == RetryInit /\ [][RetryNext]_vars

(***************************************************************************)
(* A column task and a row task across timeouts, crashes and restarts      *)
(***************************************************************************)
\* one ColumnTask just created, and a row-mode Result whose only row was
\* marked running by a row batch when the process died
RecoverPipelines == { <<"contains">> }

RecoverInit ==
    /\ LimiterInitWith({2}, {60})
    /\ creation = [resp |-> "ok", execution_mode |-> "row_based", selected |-> {1}]
    /\ engine = [has_values |-> FALSE, values |-> <<>>, stored |-> <<>>, calls |-> <<>>]
    /\ columns \in RecoverPipelines
    /\ row_tasks = [r \in {1} |->
                      [NewRowTask(CHOOSE rid \in Results : TRUE) EXCEPT
                          !.status = "running", !.started_at = "recent"]]
    /\ cells = [r \in {1} |-> [i \in 1..Len(columns) |-> <<>>]]
    /\ result = [ status |-> "running", prompt_versions |-> PromptVersions(columns),
                  total_count |-> 0, passed_count |-> 0, unpassed_count |-> 0,
                  failed_count |-> 0 ]
    /\ llm_calls = {}
    /\ OneTask(1..NumItems, 0)
    /\ SchedulerInit({MaxConcurrentTasks - 1})

RecoverNext ==
    \/ ColumnRunNext
    \/ Crash
    \/ Elapse
    \/ ElapseShort
    \/ \E w \in Live : RowColumns(w)
    \/ \E w \in Live, k \in RowIds : RunBegin(w, k)
    \/ \E w \in Live, k \in RowIds : RunEval(w, k)
    \/ \E w \in Live, k \in RowIds : RunFail(w, k)
    \/ \E w \in Live, k \in RowIds : RunFinish(w, k)
    \/ \E w \in Live, k \in RowIds : RunStats(w, k)

SpecRecover == RecoverInit /\ [][RecoverNext]_vars

\* C14: a ColumnTask's current_retry never decreases and never exceeds its
\* max_retries, and the retry_count of each of its TaskItems never
\* decreases and never exceeds the task's max_retries.
C14_RetryCounters ==
    [][\A t \in DOMAIN tasks :
          /\ tasks'[t].current_retry >= tasks[t].current_retry
          /\ tasks'[t].current_retry <= tasks'[t].max_retries
          /\ \A i \in DOMAIN tasks[t].items :
                /\ tasks'[t].items[i].retry_count >= tasks[t].items[i].retry_count
                /\ tasks'[t].items[i].retry_count <= tasks'[t].max_retries]_vars

\* C15: the timeout sweep marks failed, with the timeout error message,
\* every running ColumnTask started before the timeout cutoff that has no
\* log row in the last five minutes, and drops its key from the active
\* set; every other running ColumnTask (a recent log row, or started after
\* the cutoff) and its key are left as they were.
C15_TimeoutSweep ==
    [][spc = "cleanup" /\ spc' = "sleep" =>
          \A t \in DOMAIN tasks :
              tasks[t].status = "running" =>
                  IF tasks[t].started_at = "old" /\ tasks[t].logged = "old"
                  THEN /\ tasks'[t].status = "failed"
                       /\ tasks'[t].error_message = "timeout"
                       /\ <<"column_task", t>> \notin active'
                  ELSE /\ tasks'[t] = tasks[t]
                       /\ (<<"column_task", t>> \in active => <<"column_task", t>> \in active')]_vars

\* a ColumnTask was failed by the sweep while its worker had been started
C15_Witness ==
    \E t \in DOMAIN tasks :
        /\ tasks[t].status = "failed"
        /\ tasks[t].error_message = "timeout"
        /\ spc = "sleep"

(***************************************************************************)
(* Crash scenario: a ColumnTask left running by a process that died, found *)
(* by start_scheduler after task_timeout_minutes without a log row         *)
(***************************************************************************)
\* the TaskItems were left in any mixture of states
S4Init ==
    /\ LimiterInitWith({2}, {60})
    /\ RowIdle
    /\ dataset_items = 1..NumItems
    /\ tasks \in { <<[NewTask(1, 0) EXCEPT
                          !.status = "running", !.started_at = "old",
                          !.updated_at = "old", !.logged = "old",
                          !.items = its]>> :
                    its \in [dataset_items ->
                               {[NewTaskItem EXCEPT !.status = st] :
                                   st \in {"pending", "running", "completed", "failed"}}] }
    /\ requests = [q \in Requests |->
                     [pc |-> "idle", column_id |-> 0, max_retries |-> 0, resp |-> "none"]]
    /\ exec_running = {}
    /\ retry_calls = EmptyBag
    /\ SchedulerInit(1..(MaxConcurrentTasks - 1))

\* the event loop runs every coroutine that is ready
S4Fairness ==
    /\ WF_vars(StartScheduler)
    /\ WF_vars(TickPendingBegin)
    /\ WF_vars(TickPendingDispatch)
    /\ WF_vars(TickRetry)
    /\ WF_vars(TickCleanup)
    /\ WF_vars(TickSleep)
    /\ WF_vars(\E w \in Live : ColumnGuard(w))
    /\ WF_vars(\E w \in Live : ColumnGet(w))
    /\ WF_vars(\E w \in Live : ColumnStart(w))
    /\ WF_vars(\E w \in Live : ColumnPendingItems(w))
    /\ WF_vars(\E w \in Live, i \in dataset_items : ItemBegin(w, i))
    /\ WF_vars(\E w \in Live, i \in dataset_items : ItemEnd(w, i))
    /\ WF_vars(\E w \in Live : ColumnItems(w))
    /\ WF_vars(\E w \in Live : ColumnComplete(w))

SpecS4 == S4Init /\ [][ColumnRunNext]_vars /\ S4Fairness

\* C16: a ColumnTask found running with no log row for more than
\* task_timeout_minutes when the scheduler starts ends in failed with the
\* timeout error message, and stays there.
C16_StuckTaskEndsFailed ==
    <>[](\A t \in DOMAIN tasks :
            tasks[t].status = "failed" /\ tasks[t].error_message = "timeout")

\* C17: when the scheduler starts, every running ColumnTask without a log
\* row in the last five minutes goes to pending and its running TaskItems
\* go to pending, its other TaskItems staying as they are; every running
\* RowTask without recent activity goes to pending; every other ColumnTask
\* and RowTask is left unchanged.
C17_RecoveryResetsStuck ==
    [][~running /\ running' =>
          /\ \A t \in DOMAIN tasks :
                 IF tasks[t].status = "running" /\ tasks[t].logged = "old"
                 THEN /\ tasks'[t].status = "pending"
                      /\ \A i \in DOMAIN tasks[t].items :
                             IF tasks[t].items[i].status = "running"
                             THEN tasks'[t].items[i].status = "pending"
                             ELSE tasks'[t].items[i] = tasks[t].items[i]
                 ELSE tasks'[t] = tasks[t]
          /\ \A r \in DOMAIN row_tasks :
                 IF row_tasks[r].status = "running" /\ row_tasks[r].updated_at = "old"
                 THEN row_tasks'[r].status = "pending"
                 ELSE row_tasks'[r] = row_tasks[r]]_vars

\* C18: running recover_interrupted_tasks a second time right after the
\* first leaves every ColumnTask, TaskItem and RowTask as the first run
\* left them.
C18_RecoveryIdempotent ==
    /\ recover_column_tasks(recover_column_tasks(tasks)) = recover_column_tasks(tasks)
    /\ recover_row_tasks(recover_row_tasks(row_tasks)) = recover_row_tasks(row_tasks)

\* the process died with a ColumnTask that had a running TaskItem and a
\* RowTask both interrupted: the first run of the recovery changes them
C18_Witness ==
    /\ ~running
    /\ recover_row_tasks(row_tasks) # row_tasks
    /\ \E t \in DOMAIN tasks :
           /\ recover_column_tasks(tasks)[t].status # tasks[t].status
           /\ recover_column_tasks(tasks)[t].items # tasks[t].items

\* C19: a call of execute_row_tasks_batch that reaches
\* force_schedule_row_task_batch while the key row_batch:<result_id> is in
\* the active set starts no worker and leaves the active set, every
\* RowTask and the Result unchanged.
C19_ActiveBatchIsNoOp ==
    [][\A rid \in Results, ids \in ForceIds :
          (<<"row_batch", rid>> \in active /\ ExecuteRowTasksBatch(rid, ids)) =>
              UNCHANGED <<active, workers, row_tasks, result>>]_vars

(***************************************************************************)
(* Column mode: one ColumnTask whose caller pauses, resumes or cancels it  *)
(* while the scheduler and the task's worker run                           *)
(***************************************************************************)
CancelInit == TaskInit({MaxConcurrentTasks - 1}, 1..NumItems, 0)

CancelNext ==
    \/ ColumnRunNext
    \/ \E t \in DOMAIN tasks : PauseTask(t)
    \/ \E t \in DOMAIN tasks : ResumeTask(t)
    \/ \E t \in DOMAIN tasks : CancelTask(t)

SpecCancel == CancelInit /\ [][CancelNext]_vars

\* C20: once a ColumnTask that its worker has set running is cancelled,
\* no step of that worker sets one of its pending TaskItems running, and
\* no step of that worker takes the task out of cancelled.
C20_CancelIsObserved ==
    [][\A w \in Live :
          (/\ w.type = "column_task"
           /\ w.pc \in {"pending_items", "items"} \cup ItemsOutcomes
           /\ tasks[w.id].status = "cancelled"
           /\ workers' # workers) =>
              /\ tasks'[w.id].status = "cancelled"
              /\ \A i \in DOMAIN tasks[w.id].items :
                     ~(/\ tasks[w.id].items[i].status = "pending"
                       /\ tasks'[w.id].items[i].status = "running")]_vars

\* C23: there is at most one Cell for each result, dataset item and column.
C23_CellUnique ==
    \A r \in DOMAIN cells : \A i \in DOMAIN cells[r] : Len(cells[r][i]) <= 1

(***************************************************************************)
(* The create-result endpoint, in column mode and in row mode, and the    *)
(* row batches submitted afterwards                                        *)
(***************************************************************************)
\* max_retries of the request create_evaluation_tasks builds
CreateMaxRetries == 3

\* pipelines whose last column is a boolean predicate, is not one, a
\* pipeline without an evaluation column, and one whose columns were all
\* deleted
CreatePipelines ==
    { <<"prompt_template", "exact_match">>,
      <<"exact_match", "prompt_template">>,
      <<"dataset_variable">>,
      <<>> }

\* custom_columns of create_full_evaluation_result
custom_columns(cols) == {i \in 1..Len(cols) : cols[i] # "dataset_variable"}

\* the checks of create_full_evaluation_result, in their order
full_result_is_valid(cols) ==
    /\ dataset_items # {}
    /\ custom_columns(cols) # {}
    /\ cols[Max(custom_columns(cols))] \in BooleanTypes

\* EvalResult(pipeline_id, run_type, prompt_versions)
NewResult(cols) ==
    [ status |-> "new", prompt_versions |-> PromptVersions(cols),
      total_count |-> 0, passed_count |-> 0, unpassed_count |-> 0,
      failed_count |-> 0 ]

\* no EvalResult row
NoResult ==
    [ status |-> "none", prompt_versions |-> {},
      total_count |-> 0, passed_count |-> 0, unpassed_count |-> 0,
      failed_count |-> 0 ]

\* create_result for a non-staging run: the EvalResult is flushed, then
\* create_full_evaluation_result either raises (get_db rolls the flush
\* back) or inserts the cells and creates one task per executable column
CreateResult ==
    /\ creation.resp = "none"
    /\ IF full_result_is_valid(columns)
       THEN /\ result' = NewResult(columns)
            /\ cells' = [d \in dataset_items |->
                            [i \in 1..Len(columns) |->
                                IF columns[i] \in {"dataset_variable", "human_input"}
                                THEN <<"completed">> ELSE <<"new">>]]
            /\ LET todo == SetToSeq(executable_columns(columns))
               IN tasks' = tasks \o [k \in 1..Len(todo) |-> NewTask(todo[k], CreateMaxRetries)]
            /\ creation' = [resp |-> "ok", execution_mode |-> "column_based",
                            selected |-> dataset_items]
       ELSE /\ creation' = [resp |-> "validation", execution_mode |-> "column_based",
                            selected |-> {}]
            /\ UNCHANGED <<result, cells, tasks>>
    /\ UNCHANGED <<cfgVars, limVars, columns, row_tasks, requests, exec_running, retry_calls,
                   schedVars, llm_calls>>

\* create_result_with_row_execution: the EvalResult is committed, the
\* RowTasks are created, and the batch is handed to the scheduler when
\* create_row_tasks_for_result returned some
CreateResultWithRowExecution(ids) ==
    /\ creation.resp = "none"
    /\ result' = NewResult(columns)
    /\ row_tasks' = create_row_tasks_for_result(row_tasks, CHOOSE rid \in Results : TRUE, ids)
    /\ creation' = [resp |-> "ok", execution_mode |-> "row_based",
                    selected |-> enabled_items(ids)]
    /\ LET rid == CHOOSE r \in Results : TRUE
       IN IF /\ created_row_tasks(row_tasks, ids) # {}
             /\ Cardinality(active) < max_concurrent_tasks
             /\ <<"row_batch", rid>> \notin active
          THEN /\ active' = active \cup {<<"row_batch", rid>>}
               /\ workers' = Spawn(workers, BatchWorker(rid, ids))
          ELSE UNCHANGED <<active, workers>>
    /\ UNCHANGED <<cfgVars, limVars, columns, cells, colVars, running, spc, slots, llm_calls>>

CreateResultInit ==
    /\ LimiterInitWith({2}, {60})
    /\ creation = NoCreation
    /\ engine = [has_values |-> FALSE, values |-> <<>>, stored |-> <<>>, calls |-> <<>>]
    /\ columns \in CreatePipelines
    /\ \E D \in {{}, RowIds} : ColIdleWith(D)
    /\ row_tasks = <<>>
    /\ cells = [d \in dataset_items |-> [i \in 1..Len(columns) |-> <<>>]]
    /\ result = NoResult
    /\ llm_calls = {}
    /\ SchedulerInit({MaxConcurrentTasks - 1, MaxConcurrentTasks})

CreateResultNext ==
    \/ CreateResult
    \/ \E ids \in ForceIds : CreateResultWithRowExecution(ids)
    \/ \E rid \in Results, ids \in ForceIds :
          creation.execution_mode = "row_based" /\ ExecuteRowTasksBatch(rid, ids)
    \/ \E w \in Live : BatchFetch(w)
    \/ \E w \in Live : BatchMark(w)
    \/ \E w \in Live : BatchFinish(w)
    \/ \E w \in Live, k \in RowIds : RunBegin(w, k)
    \/ \E w \in Live, k \in RowIds : RunEval(w, k)
    \/ \E w \in Live, k \in RowIds : RunFail(w, k)
    \/ \E w \in Live, k \in RowIds : RunFinish(w, k)
    \/ \E w \in Live, k \in RowIds : RunStats(w, k)

SpecCreateResult == CreateResultInit /\ [][CreateResultNext]_vars

\* C21: a create-result request for a pipeline whose dataset has no
\* enabled item is answered with a validation error and persists no
\* Result, Cell, ColumnTask, TaskItem or RowTask.
C21_EmptyDatasetRejected ==
    [][(creation.resp = "none" /\ creation'.resp # "none" /\ dataset_items = {}) =>
          /\ creation'.resp = "validation"
          /\ result'.status = "none"
          /\ tasks' = <<>>
          /\ row_tasks' = <<>>
          /\ \A d \in DOMAIN cells' : \A i \in DOMAIN cells'[d] : cells'[d][i] = <<>>]_vars

\* C22: a create-result request (non-staging) for a pipeline with enabled
\* dataset items whose last column by position is not a boolean predicate
\* is answered with a validation error and creates no ColumnTask and no
\* RowTask.
C22_LastColumnBoolean ==
    [][(/\ creation.resp = "none"
        /\ creation'.resp # "none"
        /\ dataset_items # {}
        /\ columns # <<>>
        /\ columns[Len(columns)] \notin BooleanTypes) =>
          /\ creation'.resp = "validation"
          /\ tasks' = <<>>
          /\ row_tasks' = <<>>]_vars

\* C25: in row mode, after the Result was created and after every row batch
\* submitted since, the RowTasks of the Result are exactly one per enabled
\* dataset item selected by these requests.
C25_RowTaskPerSelectedItem ==
    creation.execution_mode = "row_based" => DOMAIN row_tasks = creation.selected

\* C24: with qps = 0 a call of acquire() never ends: no caller is admitted
\* and no caller gets an error.
C24_ZeroQpsBlocks ==
    qps = 0 => (admitted = <<>> /\ \A c \in Callers : lpc[c] # "raised")

\* C26: a RowTask whose column failed is failed with row_result failed, the
\* Cell of that column has status failed, and no column of higher position
\* was executed for the row.
C26_RowFailure ==
    \A r \in DOMAIN row_tasks :
        row_tasks[r].status = "failed" =>
            LET ci == row_tasks[r].current_column_position
            IN /\ row_tasks[r].row_result = "failed"
               /\ ci \in DOMAIN cells[r]
               /\ cells[r][ci] = <<"failed">>
               /\ \A j \in DOMAIN cells[r] : j > ci => cells[r][j] = <<>>

\* C27: a RowTask whose columns all succeeded is completed with row_result
\* passed when the last column is a boolean predicate that returned true
\* or is no boolean predicate, and unpassed when the last column is a
\* boolean predicate that returned false.
C27_RowVerdict ==
    [][\A w \in Live : \A k \in DOMAIN w.runs :
          (/\ w.type = "row_batch"
           /\ AtRun(w, k, "finish")
           /\ row_tasks[RunRow(w, k)].status # "completed"
           /\ row_tasks'[RunRow(w, k)].status = "completed") =>
              row_tasks'[RunRow(w, k)].row_result =
                  IF columns[Len(columns)] \in BooleanTypes /\ w.runs[k].val # "true"
                  THEN "unpassed" ELSE "passed"]_vars

\* a row was completed after its boolean last column returned false
C27_Witness ==
    \E r \in DOMAIN row_tasks :
        /\ row_tasks[r].status = "completed"
        /\ row_tasks[r].row_result = "unpassed"
        /\ columns[Len(columns)] \in BooleanTypes

(***************************************************************************)
(* Column mode: from the create-result request to the end of its tasks     *)
(***************************************************************************)
ColumnResultNext ==
    \/ CreateResult
    \/ ColumnRunNext

SpecColumnResult == CreateResultInit /\ [][ColumnResultNext]_vars

\* C28: in column mode, when the ColumnTask of the last column finishes and
\* no ColumnTask of the Result is pending, running or retrying any more,
\* the Result is completed and its counts are those of the last column's
\* completed cells: passed the cells whose value is true, failed the rest.
C28_ColumnAggregation ==
    [][\A t \in DOMAIN tasks :
         (/\ creation.execution_mode = "column_based"
          /\ tasks[t].column_id = Max(executable_columns(columns))
          /\ tasks[t].status \in LiveStatuses
          /\ \A u \in DOMAIN tasks' : tasks'[u].status \notin LiveStatuses)
         => /\ result'.status = "completed"
            /\ result'.passed_count =
                  Cardinality(CompletedCells(cells', tasks[t].column_id, {"completed"}))
            /\ result'.failed_count =
                  Cardinality(CompletedCells(cells', tasks[t].column_id, {"completed_false"}))]_vars

\* C29: a ColumnTask run that ends without a task-level exception leaves
\* the task completed exactly when at least one of its TaskItems is
\* completed, and failed otherwise, a run that found no pending TaskItem
\* included.
C29_TaskOutcome ==
    [][\A w \in Live :
         (/\ w.type = "column_task"
          /\ w.pc \in ItemsOutcomes
          /\ workers' = Retire(workers, w))
         => /\ tasks'[w.id].status \in {"completed", "failed"}
            /\ tasks'[w.id].status = "completed"
                 <=> \E i \in DOMAIN tasks[w.id].items :
                        tasks[w.id].items[i].status = "completed"]_vars

(***************************************************************************)
(* Column mode: several tasks, retry_task calls, the retry delay and the   *)
(* scheduler                                                               *)
(***************************************************************************)
\* the ColumnTasks of a Result, each failed with one TaskItem failed and
\* the others completed and with one retry left: the first retry, whose
\* delay is 0, or for the last task possibly the second, whose delay is
\* not; the scheduler has two slots
RetryDispatchTasks == 1..(NumColumns + 1)

RetryDispatchInit ==
    /\ LimiterInitWith({2}, {60})
    /\ RowIdle
    /\ dataset_items = 1..NumItems
    /\ \E n \in {0, 1} :
         tasks = [c \in RetryDispatchTasks |->
                    LET k == IF c = NumColumns + 1 THEN n ELSE 0
                    IN [NewTask(c, k + 1) EXCEPT
                          !.status = "failed", !.current_retry = k,
                          !.started_at = "recent",
                          !.next_retry_at = IF k = 0 THEN "null" ELSE "due",
                          !.items = [i \in dataset_items |->
                                       [NewTaskItem EXCEPT
                                          !.status = IF i = 1 THEN "failed" ELSE "completed",
                                          !.retry_count = IF i = 1 THEN k ELSE 0]]]]
    /\ requests = [q \in Requests |->
                     [pc |-> "idle", column_id |-> 0, max_retries |-> 0, resp |-> "none"]]
    /\ exec_running = {}
    /\ retry_calls = EmptyBag
    /\ SchedulerInit({MaxConcurrentTasks - 1})

SpecRetryDispatch == RetryDispatchInit /\ [][RetryNext]_vars

C31_BatchRunsEveryRow ==
    [][\A w \in Live :
         (/\ w.type = "row_batch"
          /\ w.rows # <<>>
          /\ workers' = Retire(workers, w))
         => /\ \A k \in DOMAIN w.rows : is_finished(row_tasks'[w.rows[k]])
            /\ result' = update_eval_result_stats(result', row_tasks', w.id)]_vars

C33_SameCellAsColumnExecutor ==
    \A r \in DOMAIN cells : \A i \in DOMAIN cells[r] : \A j \in DOMAIN cells[r][i] :
        cells[r][i][j] \in {"pending"} \cup {o.cell : o \in ColumnOutcomes(columns[i])}

(***************************************************************************)
(* EvaluationEngine: the coalesce strategy on the config of one column     *)
(***************************************************************************)
\* _eval_coalesce(output, expected_output, config) on the list values that
\* config.get("values", []) returned: the list after the two inserts, and
\* its first entry that is neither None nor "" ("none" when there is none)
eval_coalesce(output, expected_output, values) ==
    LET with_output == IF output # "" THEN <<output>> \o values ELSE values
        all == IF expected_output # "" THEN <<expected_output>> \o with_output
               ELSE with_output
        filled == {i \in DOMAIN all : all[i] # ""}
    IN [ values |-> all,
         coalesced_value |-> IF filled = {} THEN "none"
                             ELSE all[CHOOSE i \in filled : \A j \in filled : i <= j] ]

\* evaluate_output(output, expected_output, "coalesce", config): with the
\* key "values" the inserts are made on the list the config holds, without
\* it on a new list
EvaluateOutput(output, expected_output) ==
    /\ Len(engine.calls) < MaxEvaluations
    /\ LET r == eval_coalesce(output, expected_output, engine.values)
       IN engine' = [engine EXCEPT
                       !.values = IF engine.has_values THEN r.values ELSE @,
                       !.calls = Append(@, [output |-> output,
                                            expected_output |-> expected_output,
                                            coalesced_value |-> r.coalesced_value])]
    /\ UNCHANGED <<creation, max_concurrent_tasks, dataset_items, old_loops, limVars, dbRowVars,
                   colVars, schedVars, llm_calls>>

\* a coalesce column whose config has no "values", an empty list or a list
\* with an empty and a non-empty entry; no call made yet
EngineInit ==
    /\ LimiterInitWith({2}, {60})
    /\ creation = NoCreation
    /\ columns = <<"coalesce">>
    /\ row_tasks = <<>>
    /\ cells = <<>>
    /\ result = NoResult
    /\ llm_calls = {}
    /\ ColIdle
    /\ max_concurrent_tasks = MaxConcurrentTasks
    /\ running = FALSE
    /\ spc = "off"
    /\ slots = 0
    /\ active = {}
    /\ workers = EmptyBag
    /\ old_loops = EmptyBag
    /\ \E has \in BOOLEAN, stored \in {<<>>, <<"", "b">>} :
         /\ has \/ stored = <<>>
         /\ engine = [has_values |-> has, values |-> stored, stored |-> stored,
                      calls |-> <<>>]

EngineNext == \E output \in {"", "a", "b"}, expected_output \in {"", "c"} :
                 EvaluateOutput(output, expected_output)

SpecEngine == EngineInit /\ [][EngineNext]_vars

\* C34: the coalesce strategy is pure: a call of evaluate_output leaves the
\* list under "values" as the Column stores it, and every call returns the
\* first non-empty entry among its own expected output, its own output and
\* the stored values.
C34_CoalesceIsPure ==
    /\ engine.values = engine.stored
    /\ \A n \in DOMAIN engine.calls :
          engine.calls[n].coalesced_value =
             eval_coalesce(engine.calls[n].output, engine.calls[n].expected_output,
                           engine.stored).coalesced_value

(***************************************************************************)
(* Dispatch of pending tasks                                               *)
(***************************************************************************)
\* C35: for every max_concurrent_tasks >= 1, while the scheduler loop runs
\* and workers terminate, every pending ColumnTask is eventually handed to
\* a worker, also when the tick finds exactly one free slot.
C35_PendingIsDispatched ==
    \A t \in 1..MaxRequests :
        (t \in DOMAIN tasks /\ tasks[t].status = "pending" /\ running)
            ~> (\E w \in Live : Key(w) = <<"column_task", t>>)

\* C36: no worker executes a ColumnTask while a ColumnTask of the same
\* Result for a column at a lower position is pending, running or retrying.
C36_ColumnOrder ==
    \A w \in Live :
        (w.type = "column_task" /\ w.pc \notin {"guard", "get", "start"})
            => \A u \in DOMAIN tasks :
                   tasks[u].column_id < tasks[w.id].column_id
                       => tasks[u].status \notin {"pending", "running", "retrying"}

\* C37: completed, failed and cancelled are absorbing states of a
\* ColumnTask, but for failed to retrying by retry_task.
C37_TerminalAbsorbing ==
    [][\A t \in DOMAIN tasks :
          tasks[t].status \in {"completed", "failed", "cancelled"}
              => \/ tasks'[t].status = tasks[t].status
                 \/ tasks[t].status = "failed" /\ tasks'[t].status = "retrying"]_vars

\* C38: completed_items + failed_items of a ColumnTask never exceeds its
\* total_items, and once the task is completed or failed and no worker
\* holds it, completed_items is the number of its completed TaskItems,
\* retries included.
C38_ProgressCounters ==
    \A t \in DOMAIN tasks :
        /\ tasks[t].completed_items + tasks[t].failed_items <= Cardinality(DOMAIN tasks[t].items)
        /\ (/\ tasks[t].status \in {"completed", "failed"}
            /\ tasks[t].error_message = "null"
            /\ \A w \in Live : Key(w) # <<"column_task", t>>)
               => tasks[t].completed_items =
                     Cardinality({i \in DOMAIN tasks[t].items : tasks[t].items[i].status = "completed"})

\* C39: whenever every RowTask of the Result is completed or failed and no
\* worker is active for it, the status of the Result is completed.
C39_ResultConverges ==
    (/\ row_tasks # <<>>
     /\ \A r \in DOMAIN row_tasks : is_finished(row_tasks[r])
     /\ \A w \in Live : w.type \notin {"row_batch", "row_task"}
     /\ \A k \in active : k[1] \notin {"row_batch", "row_task"})
        => result.status = "completed"

(***************************************************************************)
(* The scheduler loop under start, stop, pause and resume                  *)
(***************************************************************************)
\* pause_scheduler: the flag alone; the loop task is left where it is
PauseScheduler ==
    /\ running' = FALSE
    /\ UNCHANGED <<creation, cfgVars, limVars, dbRowVars, colVars, spc, slots, active, workers, llm_calls>>

\* resume_scheduler: a new loop only when _scheduler_task is None or done
ResumeScheduler ==
    /\ ~running
    /\ running' = TRUE
    /\ spc' = IF spc = "off" THEN "pending" ELSE spc
    /\ UNCHANGED <<creation, cfgVars, limVars, dbRowVars, colVars, slots, active, workers, llm_calls>>

\* one step of a _scheduler_loop task that start_scheduler has replaced:
\* with no ColumnTask and no RowTask stored its queries return nothing and
\* the tick writes nothing; after its sleep it returns when _running is
\* False and goes round again otherwise
OldLoopStep(p) ==
    /\ tasks = <<>>
    /\ row_tasks = <<>>
    /\ BagIn(p, old_loops)
    /\ LET rest == old_loops (-) SetToBag({p})
       IN old_loops' =
            CASE p = "pending" -> rest (+) SetToBag({IF Cardinality(active) >= max_concurrent_tasks
                                                     THEN "retry" ELSE "fetch"})
              [] p = "fetch" -> rest (+) SetToBag({"retry"})
              [] p = "retry" -> rest (+) SetToBag({"cleanup"})
              [] p = "cleanup" -> rest (+) SetToBag({"sleep"})
              [] OTHER -> IF running THEN rest (+) SetToBag({"pending"}) ELSE rest
    /\ UNCHANGED <<creation, max_concurrent_tasks, dataset_items, engine, limVars, dbRowVars,
                   colVars, schedVars, llm_calls>>

LoopNext ==
    \/ StartScheduler
    \/ StopScheduler
    \/ PauseScheduler
    \/ ResumeScheduler
    \/ TickPendingBegin
    \/ TickPendingDispatch
    \/ TickRetry
    \/ TickCleanup
    \/ TickSleep
    \/ \E p \in {"pending", "fetch", "retry", "cleanup", "sleep"} : OldLoopStep(p)

SpecLoop == ColumnInit(1..MaxConcurrentTasks) /\ [][LoopNext]_vars

\* C40: at most one _scheduler_loop task is alive at any time, whatever
\* the sequence of start_scheduler, stop_scheduler, pause_scheduler and
\* resume_scheduler calls between the loop's sleeps.
C40_OneSchedulerLoop ==
    (IF spc = "off" THEN 0 ELSE 1) + BagCardinality(old_loops) <= 1

====
